---- MODULE Spec2Model ----
(***************************************************************************)
(* Cipher sessions of the OpenSSL crypto implementation                    *)
(* (aws-cpp-sdk-core, utils/crypto/openssl/CryptoImpl.cpp).                *)
(*                                                                         *)
(* One OpenSSLCipher object is modelled: its flags, its EVP_CIPHER_CTX,    *)
(* its tag and (for key wrap) its working key buffer.  Buffers are         *)
(* modelled by their lengths; a GCM tag by its length and by the amount    *)
(* of data it authenticates.  The EVP_* primitives are the environment:    *)
(* each call may report a library error, and otherwise behaves as the      *)
(* OpenSSL 1.0.x implementation the file is written against.               *)
(***************************************************************************)
EXTENDS Integers, Sequences, FiniteSets, TLC

VARIABLES
    kind,                 \* concrete class of the session: CBC, CTR, GCM, KeyWrap
    ndebug,               \* TRUE when the build defines NDEBUG (assert compiled out)
    proc,                 \* "running", "aborted" (assert failed), "crashed" (null cipher used)
    m_key,
    m_initializationVector,
    m_tag,                \* [len, val]
    m_failure,
    m_encDecInitialized,
    m_encryptionMode,
    m_decryptionMode,
    m_ctx,                \* EVP_CIPHER_CTX
    m_workingKeyBuffer,   \* key wrap: the chunks concatenated so far
    lastOp,               \* the last call made on the session
    lastArg,              \* its argument (a buffer length)
    lastResult,           \* length of the buffer it returned
    lastCalls,            \* the primitive calls it made, in order
    pre,                  \* the members when the call was made, and the call before it
    authFailOutcomes,     \* what callers saw of calls that failed on a GCM tag mismatch
    otherFailOutcomes,    \* what callers saw of calls that failed for any other reason
    cek,                  \* key wrap round trip: the key to wrap, as the chunks it is fed in
    step,                 \* key wrap round trip: what the caller does next
    wrappedKey,           \* key wrap round trip: length of what the wrap returned
    unwrappedKey,         \* key wrap round trip: length of what the unwrap returned so far
    primitiveError,       \* key wrap round trip: a primitive has reported an error
    locking_callback,     \* what CRYPTO_get_locking_callback returns
    id_callback,          \* what CRYPTO_get_id_callback returns
    locks,                \* the lock table: <<>> for nullptr, else the owner of each mutex
    allocations,          \* lock tables allocated so far
    frees,                \* lock tables freed so far
    staticHist,           \* the last call on the static state and the state it was made in
    holding,              \* <<t, n>>: thread t is between its lock and its unlock of slot n
    request,              \* instruction file: the PutObjectRequest [key, metadata, body]
    contentCryptoMaterial,\* instruction file: the material handed to PopulateRequest
    handlerOp,            \* instruction file: the last call made on the handler
    originalKey,          \* instruction file: the key of the request before PopulateRequest
    bodyPos,              \* instruction file: read position of the result body
    readMaterial,         \* instruction file: what ReadContentCryptoMaterial returned
    stream,               \* hash: the stream [content, pos, eofbit, failbit, badbit]
    hashKind,             \* hash: "MD5" or "SHA256"
    hashPc,               \* hash: where Calculate is: "call", "loop", "done"
    currentPos,           \* hash: the local currentPos
    md,                   \* hash: the bytes the digest context has absorbed
    hashResult,           \* hash: the HashResult returned
    streamAtCall,         \* hash: the stream as it was when Calculate was called
    called,               \* key wrap helpers: the helper that was called
    argJ,                 \* key wrap helpers: the bit count handed to Msb / Lsb
    argBuff,              \* key wrap helpers: the 64-bit value handed to Msb / Lsb
    argBuffer,            \* key wrap helpers: the buffer handed to ConvertBufferTo8ByteSlices
    retValue              \* key wrap helpers: [values, pastEnd] returned

vars == <<kind, ndebug, proc, m_key, m_initializationVector, m_tag, m_failure,
          m_encDecInitialized, m_encryptionMode, m_decryptionMode, m_ctx,
          m_workingKeyBuffer, lastOp, lastArg, lastResult, lastCalls, pre,
          authFailOutcomes, otherFailOutcomes,
          cek, step, wrappedKey, unwrappedKey, primitiveError,
          locking_callback, id_callback, locks, allocations, frees, staticHist,
          holding, request, contentCryptoMaterial, handlerOp, originalKey, bodyPos,
          readMaterial, stream, hashKind, hashPc, currentPos, md, hashResult,
          streamAtCall, called, argJ, argBuff, argBuffer, retValue>>

helperVars == <<called, argJ, argBuff, argBuffer, retValue>>

hashVars == <<stream, hashKind, hashPc, currentPos, md, hashResult, streamAtCall>>

handlerVars == <<request, contentCryptoMaterial, handlerOp, originalKey, bodyPos,
                 readMaterial>>

roundTripVars == <<cek, step, wrappedKey, unwrappedKey, primitiveError>>

staticVars == <<locking_callback, id_callback, locks, allocations, frees, staticHist,
                holding>>

cipherVars == <<kind, m_key, m_initializationVector, m_tag, m_failure,
                m_encDecInitialized, m_encryptionMode, m_decryptionMode, m_ctx,
                m_workingKeyBuffer, lastOp, lastArg, lastResult, lastCalls, pre,
                authFailOutcomes, otherFailOutcomes>>

-----------------------------------------------------------------------------
(* Program constants                                                       *)

\* AES_CBC/CTR/GCM_Cipher_OpenSSL::BlockSizeBytes
BlockSizeBytes == 16

\* AES_GCM_Cipher_OpenSSL::TagLengthBytes
TagLengthBytes == 16

\* AES_KeyWrap_Cipher_OpenSSL::BlockSizeBytes
KeyWrapBlockSizeBytes == 8

\* sizeof(uint64_t), the size of KEY_WRAP_DEFAULT_IV
KeyWrapRegisterBytes == 8

\* the bound of the outer loop of the wrap: for (j = 0; j < 5; ++j)
KeyWrapRounds == 5

\* the mode bit locking_fn tests
CRYPTO_LOCK == 1

\* bits of a uint64_t
BitWidth == 64

\* a 64-bit value is the sequence of its 8 bytes, most significant first
MSB_CONST == <<128, 0, 0, 0, 0, 0, 0, 0>>
LSB_CONST == <<0, 0, 0, 0, 0, 0, 0, 1>>

(* Bounds of the model                                                     *)

\* most bytes one EVP context processes before the model stops feeding it
MaxTotal == 32

\* most chunks accumulated in the key wrap working buffer
MaxChunks == 2

\* slots of the lock table (CRYPTO_num_locks())
NumLocks == 2

\* most lock tables allocated in one behaviour
MaxAllocations == 3

\* the tag length, in bits, of the materials that carry one
MaxTagLengthBits == 128

\* Hash::INTERNAL_HASH_STREAM_BUFFER_SIZE, scaled down
StreamBufferSize == 2

\* longest stream hashed
MaxStreamLen == 5

\* longest buffer cut into 8-byte slices, in slices
MaxSlices == 2

Kinds == {"CBC", "CTR", "GCM", "KeyWrap"}

\* threads of the process that use the library
Threads == {"t1", "t2"}

\* the modes the library passes to the locking callback: CRYPTO_LOCK or
\* CRYPTO_UNLOCK, combined with CRYPTO_READ (4) or CRYPTO_WRITE (8)
LockModes == {CRYPTO_LOCK + 4, CRYPTO_LOCK + 8, 2 + 4, 2 + 8}

Slots == 0..(NumLocks - 1)

\* buffer lengths handed to EncryptBuffer / DecryptBuffer
InputLengths == {0, 8, BlockSizeBytes}

\* lengths of the tag a GCM session is constructed with: absent, short,
\* exact, too long
TagLengths == {0, 8, TagLengthBytes, TagLengthBytes + 1}

-----------------------------------------------------------------------------
(* The EVP primitives                                                      *)

\* EVP_CIPHER_CTX_init: a zeroed context
EVP_CIPHER_CTX_init ==
    [cipher |-> "null", encrypt |-> FALSE, ivSet |-> FALSE, bufLen |-> 0,
     finalUsed |-> FALSE, total |-> 0, tagLen |-> -1, tagVal |-> 0]

\* the EVP cipher each class initialises its context with
EVP_cipher ==
    CASE kind = "CBC" -> "aes_256_cbc"
      [] kind = "CTR" -> "aes_256_ctr"
      [] kind = "GCM" -> "aes_256_gcm"
      [] OTHER        -> "aes_256_ecb"

\* block ciphers run with padding (the default); CTR and GCM are stream-like
IsPadded(ctx) == ctx.cipher \in {"aes_256_cbc", "aes_256_ecb"}

\* the tag GCM computes over the data a context has processed
GcmTagOf(ctx) == ctx.total

\* EVP_EncryptInit_ex / EVP_DecryptInit_ex (and EVP_CIPHER_CTX_set_padding):
\* the possible outcomes.  A failed init may or may not have installed the
\* cipher before it failed.
EVP_CipherInit(ctx, enc) ==
    { [ok |-> TRUE,
       ctx |-> [cipher |-> EVP_cipher, encrypt |-> enc, ivSet |-> TRUE,
                bufLen |-> 0, finalUsed |-> FALSE, total |-> 0,
                tagLen |-> -1, tagVal |-> 0]] }
    \cup
    { [ok |-> FALSE, ctx |-> [ctx EXCEPT !.cipher = c]] : c \in {ctx.cipher, EVP_cipher} }

\* EVP_EncryptUpdate / EVP_DecryptUpdate on inl bytes.  decApi tells which of
\* the two entry points is called; the transformation itself follows
\* ctx.encrypt.  Outcomes: crash (null cipher dereferenced), a reported error,
\* or success with outl bytes written.
EVP_CipherUpdate(ctx, inl, decApi) ==
    IF ctx.cipher = "null"
    THEN { [crash |-> TRUE,  ok |-> FALSE, outl |-> 0, ctx |-> ctx],
           [crash |-> FALSE, ok |-> FALSE, outl |-> 0, ctx |-> ctx] }
    ELSE
      { [crash |-> FALSE, ok |-> FALSE, outl |-> 0, ctx |-> ctx] }
      \cup
      IF ctx.cipher = "aes_256_gcm" /\ ~ctx.ivSet
      THEN {}
      ELSE IF ~IsPadded(ctx)
      THEN { [crash |-> FALSE, ok |-> TRUE, outl |-> inl,
              ctx |-> [ctx EXCEPT !.total = ctx.total + inl]] }
      ELSE IF inl = 0
      THEN { [crash |-> FALSE, ok |-> TRUE, outl |-> 0, ctx |-> ctx] }
      ELSE
        LET all   == ctx.bufLen + inl
            whole == (all \div BlockSizeBytes) * BlockSizeBytes
            rest  == all % BlockSizeBytes
            held  == IF decApi /\ rest = 0 THEN BlockSizeBytes ELSE 0
            fix   == IF decApi /\ ctx.finalUsed THEN BlockSizeBytes ELSE 0
        IN { [crash |-> FALSE, ok |-> TRUE, outl |-> whole - held + fix,
              ctx |-> [ctx EXCEPT !.bufLen = rest,
                                  !.finalUsed = (decApi /\ rest = 0),
                                  !.total = ctx.total + inl]] }

\* the final step of GCM (do_cipher with no input): computes the tag when
\* encrypting, compares it with the tag set when decrypting
GcmFinal(ctx) ==
    IF ~ctx.ivSet
    THEN { [crash |-> FALSE, ok |-> FALSE, outl |-> 0, ctx |-> ctx, why |-> "state"] }
    ELSE IF ctx.encrypt
    THEN { [crash |-> FALSE, ok |-> TRUE, outl |-> 0, why |-> "ok",
            ctx |-> [ctx EXCEPT !.tagLen = TagLengthBytes,
                                !.tagVal = GcmTagOf(ctx), !.ivSet = FALSE]] }
    ELSE IF ctx.tagLen < 0
    THEN { [crash |-> FALSE, ok |-> FALSE, outl |-> 0, ctx |-> ctx, why |-> "notag"] }
    ELSE IF ctx.tagVal # GcmTagOf(ctx)
    THEN { [crash |-> FALSE, ok |-> FALSE, outl |-> 0, ctx |-> ctx, why |-> "tag"] }
    ELSE { [crash |-> FALSE, ok |-> TRUE, outl |-> 0, why |-> "ok",
            ctx |-> [ctx EXCEPT !.ivSet = FALSE]] }

\* EVP_EncryptFinal_ex
EVP_EncryptFinal_ex(ctx) ==
    IF ctx.cipher = "null"
    THEN { [crash |-> TRUE,  ok |-> FALSE, outl |-> 0, ctx |-> ctx, why |-> "null"],
           [crash |-> FALSE, ok |-> FALSE, outl |-> 0, ctx |-> ctx, why |-> "null"] }
    ELSE
      { [crash |-> FALSE, ok |-> FALSE, outl |-> 0, ctx |-> ctx, why |-> "lib"] }
      \cup
      IF ctx.cipher = "aes_256_gcm"
      THEN GcmFinal(ctx)
      ELSE IF ~IsPadded(ctx)
      THEN { [crash |-> FALSE, ok |-> TRUE, outl |-> 0, ctx |-> ctx, why |-> "ok"] }
      ELSE { [crash |-> FALSE, ok |-> TRUE, outl |-> BlockSizeBytes, ctx |-> ctx,
              why |-> "ok"] }

\* EVP_DecryptFinal_ex.  With padding, the held-back last block is stripped
\* of its padding: how many bytes remain depends on the data.
EVP_DecryptFinal_ex(ctx) ==
    IF ctx.cipher = "null"
    THEN { [crash |-> TRUE,  ok |-> FALSE, outl |-> 0, ctx |-> ctx, why |-> "null"],
           [crash |-> FALSE, ok |-> FALSE, outl |-> 0, ctx |-> ctx, why |-> "null"] }
    ELSE
      { [crash |-> FALSE, ok |-> FALSE, outl |-> 0, ctx |-> ctx, why |-> "lib"] }
      \cup
      IF ctx.cipher = "aes_256_gcm"
      THEN GcmFinal(ctx)
      ELSE IF ~IsPadded(ctx)
      THEN { [crash |-> FALSE, ok |-> TRUE, outl |-> 0, ctx |-> ctx, why |-> "ok"] }
      ELSE IF ctx.bufLen # 0 \/ ~ctx.finalUsed
      THEN {}
      ELSE { [crash |-> FALSE, ok |-> TRUE, outl |-> n, why |-> "ok",
              ctx |-> [ctx EXCEPT !.finalUsed = FALSE]] : n \in {0, 8} }

\* EVP_CIPHER_CTX_ctrl(EVP_CTRL_GCM_SET_TAG, arg, tag)
EVP_CTRL_GCM_SET_TAG(ctx, tag) ==
    IF ctx.cipher # "aes_256_gcm" \/ tag.len <= 0 \/ tag.len > TagLengthBytes \/ ctx.encrypt
    THEN [ok |-> FALSE, ctx |-> ctx]
    ELSE [ok |-> TRUE, ctx |-> [ctx EXCEPT !.tagLen = tag.len, !.tagVal = tag.val]]

\* EVP_CIPHER_CTX_ctrl(EVP_CTRL_CCM_GET_TAG, arg, out): the same control
\* number as EVP_CTRL_GCM_GET_TAG
EVP_CTRL_CCM_GET_TAG(ctx, arg) ==
    IF ctx.cipher # "aes_256_gcm" \/ arg <= 0 \/ arg > TagLengthBytes
       \/ ~ctx.encrypt \/ ctx.tagLen < 0
    THEN [ok |-> FALSE, tag |-> [len |-> arg, val |-> -1]]
    ELSE [ok |-> TRUE,  tag |-> [len |-> arg, val |-> ctx.tagVal]]

-----------------------------------------------------------------------------
(* The session                                                             *)

\* the object's members, with the trace and result of the call in progress
Session ==
    [failure |-> m_failure, init |-> m_encDecInitialized,
     enc |-> m_encryptionMode, dec |-> m_decryptionMode, ctx |-> m_ctx,
     tag |-> m_tag, wkb |-> m_workingKeyBuffer, proc |-> proc,
     key |-> m_key, iv |-> m_initializationVector,
     calls |-> <<>>, res |-> 0]

\* a primitive call as recorded in the trace of a handler
Call(fn, ok, why) == [fn |-> fn, ok |-> ok, why |-> why]

\* assert(cond): aborts the process unless NDEBUG is defined
AssertOk(cond) == ndebug \/ cond

Abort(s) == [s EXCEPT !.proc = "aborted"]

\* AES_CBC/CTR/GCM/KeyWrap_Cipher_OpenSSL::InitEncryptor_Internal
InitEncryptor_Internal(s) ==
    { [s EXCEPT !.ctx = o.ctx,
                !.failure = IF o.ok THEN s.failure ELSE TRUE,
                !.calls = Append(s.calls, Call("EncryptInit", o.ok, "lib"))]
      : o \in EVP_CipherInit(s.ctx, TRUE) }

\* AES_CBC/CTR/KeyWrap_Cipher_OpenSSL::InitDecryptor_Internal
InitDecryptor_Plain(s) ==
    { [s EXCEPT !.ctx = o.ctx,
                !.failure = IF o.ok THEN s.failure ELSE TRUE,
                !.calls = Append(s.calls, Call("DecryptInit", o.ok, "lib"))]
      : o \in EVP_CipherInit(s.ctx, FALSE) }

\* AES_GCM_Cipher_OpenSSL::InitDecryptor_Internal
InitDecryptor_GCM(s) ==
    { LET s1 == [s EXCEPT !.ctx = o.ctx,
                          !.calls = Append(s.calls, Call("DecryptInit", o.ok, "lib"))]
      IN  IF ~o.ok
          THEN [s1 EXCEPT !.failure = TRUE]
          ELSE IF ~AssertOk(s1.tag.len > 0)
          THEN Abort(s1)
          ELSE IF s1.tag.len < TagLengthBytes
          THEN [s1 EXCEPT !.failure = TRUE,
                          !.calls = Append(s1.calls, Call("TagLengthCheck", FALSE, "taglen"))]
          ELSE LET c == EVP_CTRL_GCM_SET_TAG(s1.ctx, s1.tag)
               IN  [s1 EXCEPT !.ctx = c.ctx,
                              !.failure = IF c.ok THEN s1.failure ELSE TRUE,
                              !.calls = Append(s1.calls, Call("SetTag", c.ok, "lib"))]
      : o \in EVP_CipherInit(s.ctx, FALSE) }

InitDecryptor_Internal(s) ==
    IF kind = "GCM" THEN InitDecryptor_GCM(s) ELSE InitDecryptor_Plain(s)

\* OpenSSLCipher::CheckInitEncryptor
CheckInitEncryptor(s) ==
    IF ~AssertOk(~s.failure) \/ ~AssertOk(~s.dec)
    THEN { Abort(s) }
    ELSE IF ~s.init
    THEN { IF s1.proc = "running" THEN [s1 EXCEPT !.enc = TRUE, !.init = TRUE] ELSE s1
           : s1 \in InitEncryptor_Internal(s) }
    ELSE { s }

\* OpenSSLCipher::CheckInitDecryptor
CheckInitDecryptor(s) ==
    IF ~AssertOk(~s.failure) \/ ~AssertOk(~s.enc)
    THEN { Abort(s) }
    ELSE IF ~s.init
    THEN { IF s1.proc = "running" THEN [s1 EXCEPT !.dec = TRUE, !.init = TRUE] ELSE s1
           : s1 \in InitDecryptor_Internal(s) }
    ELSE { s }

\* the body of EncryptBuffer / DecryptBuffer after the lazy init: one update
\* call, whose failure sets m_failure and whose output is the result
UpdateStep(s, inl, decApi) ==
    IF s.proc # "running" THEN { s }
    ELSE { IF o.crash
           THEN [s EXCEPT !.proc = "crashed"]
           ELSE [s EXCEPT !.ctx = o.ctx,
                          !.failure = IF o.ok THEN s.failure ELSE TRUE,
                          !.res = IF o.ok THEN o.outl ELSE 0,
                          !.calls = Append(s.calls,
                              Call(IF decApi THEN "DecryptUpdate" ELSE "EncryptUpdate",
                                   o.ok, "lib"))]
           : o \in EVP_CipherUpdate(s.ctx, inl, decApi) }

\* OpenSSLCipher::EncryptBuffer
OpenSSLCipher_EncryptBuffer(s, inl) ==
    IF s.failure
    THEN { s }
    ELSE UNION { UpdateStep(s1, inl, FALSE) : s1 \in CheckInitEncryptor(s) }

\* key wrap EncryptBuffer that puts the new chunk in front of the buffer
KeyWrap_EncryptBuffer_Prepends(s, inl) ==
    { IF s1.proc # "running" THEN s1
      ELSE [s1 EXCEPT !.wkb = IF inl = 0 THEN s1.wkb ELSE <<inl>> \o s1.wkb]
      : s1 \in CheckInitEncryptor(s) }

\* AES_KeyWrap_Cipher_OpenSSL::EncryptBuffer
KeyWrap_EncryptBuffer(s, inl) ==
    { IF s1.proc # "running" THEN s1
      ELSE [s1 EXCEPT !.wkb = IF inl = 0 THEN s1.wkb ELSE Append(s1.wkb, inl)]
      : s1 \in CheckInitEncryptor(s) }

\* the final step shared by FinalizeEncryption / FinalizeDecryption
FinalStep(s, outs, fn) ==
    { IF o.crash
      THEN [s EXCEPT !.proc = "crashed"]
      ELSE [s EXCEPT !.ctx = o.ctx,
                     !.failure = IF o.ok THEN s.failure ELSE TRUE,
                     !.res = IF o.ok THEN o.outl ELSE 0,
                     !.calls = Append(s.calls, Call(fn, o.ok, o.why))]
      : o \in outs }

\* OpenSSLCipher::FinalizeEncryption
OpenSSLCipher_FinalizeEncryption(s) ==
    IF s.failure
    THEN { s }
    ELSE FinalStep(s, EVP_EncryptFinal_ex(s.ctx), "EncryptFinal")

\* GCM FinalizeEncryption with the tag buffer sized as the IV (12 bytes)
GCM_FinalizeEncryption_IvSizedTag(s) ==
    { IF s1.proc # "running" THEN s1
      ELSE LET c == EVP_CTRL_CCM_GET_TAG(s1.ctx, TagLengthBytes - 4)
           IN  [s1 EXCEPT !.tag = c.tag,
                          !.failure = IF c.ok THEN s1.failure ELSE TRUE,
                          !.res = IF c.ok THEN s1.res ELSE 0,
                          !.calls = Append(s1.calls, Call("GetTag", c.ok, "lib"))]
      : s1 \in OpenSSLCipher_FinalizeEncryption(s) }

\* AES_GCM_Cipher_OpenSSL::FinalizeEncryption
GCM_FinalizeEncryption(s) ==
    { IF s1.proc # "running" THEN s1
      ELSE LET c == EVP_CTRL_CCM_GET_TAG(s1.ctx, TagLengthBytes)
           IN  [s1 EXCEPT !.tag = c.tag,
                          !.failure = IF c.ok THEN s1.failure ELSE TRUE,
                          !.res = IF c.ok THEN s1.res ELSE 0,
                          !.calls = Append(s1.calls, Call("GetTag", c.ok, "lib"))]
      : s1 \in OpenSSLCipher_FinalizeEncryption(s) }

\* the blocks the wrap loop runs over: integrityCheckRegister.Slice(BlockSizeBytes),
\* the 8-byte register cut into 8-byte slices (not the working key buffer)
KeyWrapLoopBlocks == KeyWrapRegisterBytes \div KeyWrapBlockSizeBytes

\* the calls of the wrap loop: for j < 5, for i < n, one Encrypt of
\* register || registerBlocks[i]; t is computed and dropped, nothing is
\* written back
KeyWrapLoopCalls ==
    [k \in 1..(KeyWrapRounds * KeyWrapLoopBlocks) |-> Call("Encrypt", TRUE, "lib")]

\* AES_KeyWrap_Cipher_OpenSSL::FinalizeEncryption: the wrap loop writes nothing
\* back and the function ends without a return statement, so the buffer the
\* caller receives is indeterminate
KeyWrap_FinalizeEncryption(s) ==
    UNION { IF s1.proc # "running" THEN { s1 }
            ELSE { [s1 EXCEPT !.res = n, !.calls = s1.calls \o KeyWrapLoopCalls]
                   : n \in {0, BlockSizeBytes} }
            : s1 \in CheckInitEncryptor(s) }

\* OpenSSLCipher::DecryptBuffer
OpenSSLCipher_DecryptBuffer(s, inl) ==
    IF s.failure
    THEN { s }
    ELSE UNION { UpdateStep(s1, inl, TRUE) : s1 \in CheckInitDecryptor(s) }

\* FinalizeDecryption without "m_failure = true" on a failed final step
OpenSSLCipher_FinalizeDecryption_NoFlag(s) ==
    IF s.failure
    THEN { s }
    ELSE { [s1 EXCEPT !.failure = s.failure]
           : s1 \in FinalStep(s, EVP_DecryptFinal_ex(s.ctx), "DecryptFinal") }

\* OpenSSLCipher::FinalizeDecryption
OpenSSLCipher_FinalizeDecryption(s) ==
    IF s.failure
    THEN { s }
    ELSE FinalStep(s, EVP_DecryptFinal_ex(s.ctx), "DecryptFinal")

\* Reset whose Cleanup also releases the key
OpenSSLCipher_Reset_DropsKey(s) ==
    [s EXCEPT !.failure = FALSE, !.init = FALSE, !.enc = FALSE, !.dec = FALSE,
              !.ctx = EVP_CIPHER_CTX_init, !.key = "none"]

\* Reset whose Cleanup leaves m_failure as it is
OpenSSLCipher_Reset_KeepsFailure(s) ==
    [s EXCEPT !.init = FALSE, !.enc = FALSE, !.dec = FALSE,
              !.ctx = EVP_CIPHER_CTX_init]

\* OpenSSLCipher::Cleanup followed by OpenSSLCipher::Init
OpenSSLCipher_Reset(s) ==
    [s EXCEPT !.failure = FALSE, !.init = FALSE, !.enc = FALSE, !.dec = FALSE,
              !.ctx = EVP_CIPHER_CTX_init]

\* a move that leaves m_encryptionMode of the new object unset
OpenSSLCipher_Move_DropsMode(s) ==
    [s EXCEPT !.init = s.init, !.enc = FALSE, !.dec = s.dec, !.ctx = s.ctx]

\* OpenSSLCipher::OpenSSLCipher(OpenSSLCipher&&): the new object takes over
\* the context and copies the three flags; the base class moves key, IV, tag
OpenSSLCipher_Move(s) ==
    [s EXCEPT !.init = s.init, !.enc = s.enc, !.dec = s.dec, !.ctx = s.ctx]

\* virtual dispatch on the concrete class
EncryptBufferOf(s, inl) ==
    IF kind = "KeyWrap" THEN KeyWrap_EncryptBuffer(s, inl)
    ELSE OpenSSLCipher_EncryptBuffer(s, inl)

FinalizeEncryptionOf(s) ==
    CASE kind = "GCM"     -> GCM_FinalizeEncryption(s)
      [] kind = "KeyWrap" -> KeyWrap_FinalizeEncryption(s)
      [] OTHER            -> OpenSSLCipher_FinalizeEncryption(s)

FinalizeDecryptionOf(s) == OpenSSLCipher_FinalizeDecryption(s)

-----------------------------------------------------------------------------
(* The state machine: one action per public call                           *)

\* tags a GCM session may be constructed with; val names the amount of data
\* the tag authenticates
InitialTags ==
    { [len |-> l, val |-> v] : l \in TagLengths \ {0}, v \in {0, BlockSizeBytes} }
    \cup { [len |-> 0, val |-> 0] }

\* the members a caller can compare before and after a call
Members ==
    [failure |-> m_failure, init |-> m_encDecInitialized,
     enc |-> m_encryptionMode, dec |-> m_decryptionMode,
     tag |-> m_tag, wkb |-> m_workingKeyBuffer,
     key |-> m_key, iv |-> m_initializationVector]

\* what the caller of a call sees of it: the returned buffer and the flag
Outcome(s) == [res |-> s.res, failure |-> s.failure]

FailedOnTag(s) == \E i \in 1..Len(s.calls) : ~s.calls[i].ok /\ s.calls[i].why = "tag"

FailedOtherwise(s) == \E i \in 1..Len(s.calls) : ~s.calls[i].ok /\ s.calls[i].why # "tag"

\* OpenSSLCipher constructors: flags cleared, context initialised
Constructed ==
    /\ ndebug \in BOOLEAN
    /\ proc = "running"
    /\ m_key = "key"
    /\ m_initializationVector = "iv"
    /\ m_tag \in (IF kind = "GCM" THEN InitialTags ELSE { [len |-> 0, val |-> 0] })
    /\ m_failure = FALSE
    /\ m_encDecInitialized = FALSE
    /\ m_encryptionMode = FALSE
    /\ m_decryptionMode = FALSE
    /\ m_ctx = EVP_CIPHER_CTX_init
    /\ m_workingKeyBuffer = <<>>
    /\ lastOp = "none"
    /\ lastArg = 0
    /\ lastResult = 0
    /\ lastCalls = <<>>
    /\ pre = [m |-> Members, op |-> "none"]
    /\ authFailOutcomes = {}
    /\ otherFailOutcomes = {}

\* no key wrap round trip is under way
NoRoundTrip ==
    /\ cek = <<>>
    /\ step = "none"
    /\ wrappedKey = 0
    /\ unwrappedKey = 0
    /\ primitiveError = FALSE

\* the static state before init_static_state, no other party having
\* registered a callback
StaticUntouched ==
    /\ locking_callback = "null"
    /\ id_callback = "null"
    /\ locks = <<>>
    /\ allocations = 0
    /\ frees = 0
    /\ staticHist = [op |-> "none", prevOp |-> "none", initCalled |-> FALSE,
                     g |-> [locking |-> "null", id |-> "null", locks |-> <<>>,
                            allocations |-> 0, frees |-> 0],
                     allocationsBefore |-> 0]
    /\ holding = {}

\* no instruction file is being written or read
NoRequest ==
    /\ request = [key |-> <<>>, metadata |-> <<>>, body |-> <<>>]
    /\ contentCryptoMaterial = [none |-> TRUE]
    /\ handlerOp = "none"
    /\ originalKey = <<>>
    /\ bodyPos = 0
    /\ readMaterial = [none |-> TRUE]

\* a stream with no error bit set
GoodStream(content, pos) ==
    [content |-> content, pos |-> pos, eofbit |-> FALSE, failbit |-> FALSE, badbit |-> FALSE]

\* no hash is being calculated
NoHash ==
    /\ stream = GoodStream(<<>>, 0)
    /\ hashKind = "none"
    /\ hashPc = "none"
    /\ currentPos = 0
    /\ md = <<>>
    /\ hashResult = <<>>
    /\ streamAtCall = GoodStream(<<>>, 0)

\* no helper of the key wrap has been called
NoHelper ==
    /\ called = "none"
    /\ argJ = 0
    /\ argBuff = <<>>
    /\ argBuffer = <<>>
    /\ retValue = [values |-> <<>>, pastEnd |-> FALSE]

Init ==
    /\ kind \in Kinds
    /\ Constructed
    /\ NoRoundTrip
    /\ StaticUntouched
    /\ NoRequest
    /\ NoHash
    /\ NoHelper

\* the effect on the session of a call that ends in s
Effect(op, arg, s) ==
    /\ m_failure' = s.failure
    /\ m_encDecInitialized' = s.init
    /\ m_encryptionMode' = s.enc
    /\ m_decryptionMode' = s.dec
    /\ m_ctx' = s.ctx
    /\ m_tag' = s.tag
    /\ m_workingKeyBuffer' = s.wkb
    /\ proc' = s.proc
    /\ lastOp' = op
    /\ lastArg' = arg
    /\ lastResult' = s.res
    /\ lastCalls' = s.calls
    /\ pre' = [m |-> Members, op |-> lastOp]
    /\ authFailOutcomes' = IF s.proc = "running" /\ ~m_failure
                              /\ op = "FinalizeDecryption" /\ FailedOnTag(s)
                           THEN authFailOutcomes \cup {Outcome(s)}
                           ELSE authFailOutcomes
    /\ otherFailOutcomes' = IF s.proc = "running" /\ ~m_failure /\ FailedOtherwise(s)
                            THEN otherFailOutcomes \cup {Outcome(s)}
                            ELSE otherFailOutcomes
    /\ m_key' = s.key
    /\ m_initializationVector' = s.iv
    /\ UNCHANGED <<kind, ndebug>>

\* a call on the session that ends in s
Return(op, arg, s) ==
    /\ Effect(op, arg, s)
    /\ UNCHANGED roundTripVars
    /\ UNCHANGED staticVars
    /\ UNCHANGED handlerVars
    /\ UNCHANGED hashVars
    /\ UNCHANGED helperVars

\* the model stops feeding a context that has processed MaxTotal bytes, and a
\* working buffer that holds MaxChunks chunks
Feedable(inl) ==
    /\ m_ctx.total + inl <= MaxTotal
    /\ kind = "KeyWrap" /\ inl > 0 => Len(m_workingKeyBuffer) < MaxChunks

EncryptBuffer ==
    /\ proc = "running"
    /\ \E inl \in InputLengths :
          /\ Feedable(inl)
          /\ \E s \in EncryptBufferOf(Session, inl) : Return("EncryptBuffer", inl, s)

FinalizeEncryption ==
    /\ proc = "running"
    /\ \E s \in FinalizeEncryptionOf(Session) : Return("FinalizeEncryption", 0, s)

DecryptBuffer ==
    /\ proc = "running"
    /\ \E inl \in InputLengths :
          /\ Feedable(inl)
          /\ \E s \in OpenSSLCipher_DecryptBuffer(Session, inl) :
                Return("DecryptBuffer", inl, s)

FinalizeDecryption ==
    /\ proc = "running"
    /\ \E s \in FinalizeDecryptionOf(Session) : Return("FinalizeDecryption", 0, s)

Reset ==
    /\ proc = "running"
    /\ Return("Reset", 0, OpenSSLCipher_Reset(Session))

\* the session is moved into a new object, which the model follows from then on
Move ==
    /\ proc = "running"
    /\ lastOp # "Move"
    /\ Return("Move", 0, OpenSSLCipher_Move(Session))

Next ==
    \/ EncryptBuffer
    \/ FinalizeEncryption
    \/ DecryptBuffer
    \/ FinalizeDecryption
    \/ Reset
    \/ Move

Spec == Init /\ [][Next]_vars

-----------------------------------------------------------------------------
(* Key wrap round trip: a caller wraps a content encryption key with one   *)
(* AES_KeyWrap_Cipher_OpenSSL and unwraps the result with another, built   *)
(* on the same key encryption key.                                         *)

\* the keys wrapped: whole 64-bit blocks, fed in at most MaxChunks chunks
ContentKeys ==
    { k \in UNION { [1..n -> {KeyWrapBlockSizeBytes, 2 * KeyWrapBlockSizeBytes}]
                    : n \in 1..MaxChunks } : TRUE }

\* some primitive call of s reported an error
AnyError(s) == \E i \in 1..Len(s.calls) : ~s.calls[i].ok

\* a session as its constructor leaves it, on the key of the current one
NewSession ==
    [Session EXCEPT !.failure = FALSE, !.init = FALSE, !.enc = FALSE, !.dec = FALSE,
                    !.ctx = EVP_CIPHER_CTX_init, !.wkb = <<>>]

InitRoundTrip ==
    /\ kind = "KeyWrap"
    /\ Constructed
    /\ cek \in ContentKeys
    /\ step = "wrap"
    /\ wrappedKey = 0
    /\ unwrappedKey = 0
    /\ primitiveError = FALSE
    /\ StaticUntouched
    /\ NoRequest
    /\ NoHash
    /\ NoHelper

\* the caller hands the next chunk of the key to EncryptBuffer
WrapEncryptBuffer ==
    /\ proc = "running"
    /\ step = "wrap"
    /\ Len(m_workingKeyBuffer) < Len(cek)
    /\ LET inl == cek[Len(m_workingKeyBuffer) + 1]
       IN \E s \in KeyWrap_EncryptBuffer(Session, inl) :
             /\ Effect("EncryptBuffer", inl, s)
             /\ primitiveError' = (primitiveError \/ AnyError(s))
             /\ UNCHANGED <<staticVars, handlerVars, hashVars, helperVars, cek, step, wrappedKey, unwrappedKey>>

\* the caller takes the wrapped key from FinalizeEncryption
WrapFinalizeEncryption ==
    /\ proc = "running"
    /\ step = "wrap"
    /\ Len(m_workingKeyBuffer) = Len(cek)
    /\ \E s \in KeyWrap_FinalizeEncryption(Session) :
          /\ Effect("FinalizeEncryption", 0, s)
          /\ wrappedKey' = s.res
          /\ step' = "unwrap"
          /\ primitiveError' = (primitiveError \/ AnyError(s))
          /\ UNCHANGED <<staticVars, handlerVars, hashVars, helperVars, cek, unwrappedKey>>

\* the caller hands the wrapped key to DecryptBuffer of a new session
UnwrapDecryptBuffer ==
    /\ proc = "running"
    /\ step = "unwrap"
    /\ \E s \in OpenSSLCipher_DecryptBuffer(NewSession, wrappedKey) :
          /\ Effect("DecryptBuffer", wrappedKey, s)
          /\ unwrappedKey' = s.res
          /\ step' = "unwrapFinal"
          /\ primitiveError' = (primitiveError \/ AnyError(s))
          /\ UNCHANGED <<staticVars, handlerVars, hashVars, helperVars, cek, wrappedKey>>

\* the caller appends what FinalizeDecryption returns
UnwrapFinalizeDecryption ==
    /\ proc = "running"
    /\ step = "unwrapFinal"
    /\ \E s \in OpenSSLCipher_FinalizeDecryption(Session) :
          /\ Effect("FinalizeDecryption", 0, s)
          /\ unwrappedKey' = unwrappedKey + s.res
          /\ step' = "done"
          /\ primitiveError' = (primitiveError \/ AnyError(s))
          /\ UNCHANGED <<staticVars, handlerVars, hashVars, helperVars, cek, wrappedKey>>

NextRoundTrip ==
    \/ WrapEncryptBuffer
    \/ WrapFinalizeEncryption
    \/ UnwrapDecryptBuffer
    \/ UnwrapFinalizeDecryption

SpecRoundTrip == InitRoundTrip /\ [][NextRoundTrip]_vars

-----------------------------------------------------------------------------
(* Static state of the OpenSSL binding: the two callbacks registered with  *)
(* the library and the table of mutexes behind locking_fn.  A callback is  *)
(* "null", this module's function, or "foreign" (registered by another     *)
(* party of the process).                                                  *)

\* the static state as one value
Global ==
    [locking |-> locking_callback, id |-> id_callback, locks |-> locks,
     allocations |-> allocations, frees |-> frees]

\* Aws::NewArray<std::mutex>(CRYPTO_num_locks()): every mutex unlocked
NewLockTable == [i \in 1..NumLocks |-> "unlocked"]

\* init_static_state that allocates and registers without looking at what is
\* registered
init_static_state_Unconditional(g) ==
    [g EXCEPT !.locks = NewLockTable, !.allocations = g.allocations + 1,
              !.locking = "locking_fn", !.id = "id_fn"]

\* init_static_state
init_static_state(g) ==
    LET g1 == IF g.locking = "null"
              THEN [g EXCEPT !.locks = NewLockTable,
                             !.allocations = g.allocations + 1,
                             !.locking = "locking_fn"]
              ELSE g
    IN IF g1.id = "null" THEN [g1 EXCEPT !.id = "id_fn"] ELSE g1

\* cleanup_static_state: the outcome is the static state and whether the
\* assertion held
cleanup_static_state(g) ==
    IF g.locking = "locking_fn"
    THEN LET g1 == [g EXCEPT !.id = "null"]
         IN IF ~AssertOk(g1.locks # <<>>)
            THEN [g |-> g1, asserted |-> FALSE]
            ELSE LET g2 == [g1 EXCEPT !.locks = <<>>,
                                      !.frees = IF g1.locks = <<>> THEN g1.frees
                                                ELSE g1.frees + 1]
                 IN [g |-> IF g2.id = "id_fn" THEN [g2 EXCEPT !.locking = "null"] ELSE g2,
                     asserted |-> TRUE]
    ELSE [g |-> IF g.id = "id_fn" THEN [g EXCEPT !.locking = "null"] ELSE g,
          asserted |-> TRUE]

\* the process starts with or without callbacks of another party registered
InitStatic ==
    /\ kind = "CBC"
    /\ Constructed
    /\ NoRoundTrip
    /\ locking_callback \in {"null", "foreign"}
    /\ id_callback \in {"null", "foreign"}
    /\ locks = <<>>
    /\ allocations = 0
    /\ frees = 0
    /\ staticHist = [op |-> "none", prevOp |-> "none", initCalled |-> FALSE,
                     g |-> Global, allocationsBefore |-> 0]
    /\ holding = {}
    /\ NoRequest
    /\ NoHash
    /\ NoHelper

\* the static state becomes g by the call op
StaticReturn(op, g) ==
    /\ locking_callback' = g.locking
    /\ id_callback' = g.id
    /\ locks' = g.locks
    /\ allocations' = g.allocations
    /\ frees' = g.frees
    /\ staticHist' = [op |-> op, prevOp |-> staticHist.op,
                      initCalled |-> (staticHist.initCalled \/ op = "init"),
                      g |-> Global, allocationsBefore |-> staticHist.g.allocations]
    /\ UNCHANGED <<cipherVars, roundTripVars, handlerVars, hashVars, helperVars, ndebug>>

\* no thread is inside the library: init and cleanup run outside of crypto
\* operations
NoMutexHeld == holding = {} /\ \A i \in 1..Len(locks) : locks[i] = "unlocked"

CallInit ==
    /\ proc = "running"
    /\ NoMutexHeld
    /\ allocations < MaxAllocations
    /\ StaticReturn("init", init_static_state(Global))
    /\ UNCHANGED <<proc, holding>>

CallCleanup ==
    /\ proc = "running"
    /\ NoMutexHeld
    /\ LET o == cleanup_static_state(Global)
       IN /\ StaticReturn("cleanup", o.g)
          /\ proc' = IF o.asserted THEN proc ELSE "aborted"
    /\ UNCHANGED holding

\* mode & CRYPTO_LOCK
IsLock(mode) == (mode \div CRYPTO_LOCK) % 2 = 1

\* locking_fn that uses the first mutex of the table for every slot
MutexOf_First(n) == 0

\* the mutex locking_fn uses for slot n: locks[n]
MutexOf(n) == n

\* the library calls the registered locking callback for thread t: locking_fn
\* locks or unlocks locks[n].  The library locks a slot the thread is not
\* inside and unlocks one it is inside; std::mutex::lock returns once no thread
\* owns the mutex.  Indexing a null table is undefined: the process crashes or
\* goes on with corrupted memory.
CallLocking ==
    /\ proc = "running"
    /\ locking_callback = "locking_fn"
    /\ \E t \in Threads, n \in Slots, mode \in LockModes :
          IF locks = <<>>
          THEN /\ proc' \in {"crashed", "corrupted"}
               /\ StaticReturn("locking", Global)
               /\ UNCHANGED holding
          ELSE /\ IF IsLock(mode)
                  THEN /\ <<t, n>> \notin holding
                       /\ locks[MutexOf(n) + 1] = "unlocked"
                       /\ StaticReturn("locking", [Global EXCEPT !.locks[MutexOf(n) + 1] = t])
                       /\ holding' = holding \cup {<<t, n>>}
                  ELSE /\ <<t, n>> \in holding
                       /\ StaticReturn("locking",
                                       [Global EXCEPT !.locks[MutexOf(n) + 1] = "unlocked"])
                       /\ holding' = holding \ {<<t, n>>}
               /\ UNCHANGED proc

NextStatic ==
    \/ CallInit
    \/ CallCleanup
    \/ CallLocking

SpecStatic == InitStatic /\ [][NextStatic]_vars

-----------------------------------------------------------------------------
(* Instruction file handler (InstructionFileHandler.cpp).  A string is the *)
(* sequence of its pieces: single characters, or a run of characters that  *)
(* holds no whitespace and no quote.  A map is the sequence of its         *)
(* entries [k, v].  The codec of the envelope (SerializeMap,               *)
(* DeserializeMap, ReadMetadata), base64 and the algorithm names are not   *)
(* part of the file; they are modelled as the specification describes      *)
(* them.                                                                   *)

DEFAULT_INSTRUCTION_FILE_SUFFIX == <<".instruction">>
INSTRUCTION_FILE_HEADER == <<"x-amz-crypto-instr-file">>
INSTRUCTION_HEADER_VALUE == <<"default", " ", "instruction", " ", "file", " ", "header">>
CONTENT_KEY_HEADER == <<"x-amz-key">>
IV_HEADER == <<"x-amz-iv">>
MATERIALS_DESCRIPTION_HEADER == <<"x-amz-matdesc">>
CONTENT_CRYPTO_SCHEME_HEADER == <<"x-amz-cek-alg">>
KEY_WRAP_ALGORITHM == <<"x-amz-wrap-alg">>
CRYPTO_TAG_LENGTH_HEADER == <<"x-amz-tag-len">>

EnvelopeHeaders ==
    {CONTENT_KEY_HEADER, IV_HEADER, MATERIALS_DESCRIPTION_HEADER,
     CONTENT_CRYPTO_SCHEME_HEADER, KEY_WRAP_ALGORITHM, CRYPTO_TAG_LENGTH_HEADER}

Base64Alphabet ==
    <<"A", "B", "C", "D", "E", "F", "G", "H", "I", "J", "K", "L", "M", "N", "O", "P",
      "Q", "R", "S", "T", "U", "V", "W", "X", "Y", "Z", "a", "b", "c", "d", "e", "f",
      "g", "h", "i", "j", "k", "l", "m", "n", "o", "p", "q", "r", "s", "t", "u", "v",
      "w", "x", "y", "z", "0", "1", "2", "3", "4", "5", "6", "7", "8", "9", "+", "/">>

\* HashingUtils::Base64Encode: three bytes give four characters, a shorter
\* tail is padded with '='
RECURSIVE Base64Encode(_)
Base64Encode(b) ==
    IF b = <<>> THEN <<>>
    ELSE IF Len(b) = 1
    THEN <<Base64Alphabet[(b[1] \div 4) + 1], Base64Alphabet[(b[1] % 4) * 16 + 1], "=", "=">>
    ELSE IF Len(b) = 2
    THEN <<Base64Alphabet[(b[1] \div 4) + 1],
           Base64Alphabet[(b[1] % 4) * 16 + (b[2] \div 16) + 1],
           Base64Alphabet[(b[2] % 16) * 4 + 1], "=">>
    ELSE <<Base64Alphabet[(b[1] \div 4) + 1],
           Base64Alphabet[(b[1] % 4) * 16 + (b[2] \div 16) + 1],
           Base64Alphabet[(b[2] % 16) * 4 + (b[3] \div 64) + 1],
           Base64Alphabet[(b[3] % 64) + 1]>> \o Base64Encode(SubSeq(b, 4, Len(b)))

DecimalDigits == <<"0", "1", "2", "3", "4", "5", "6", "7", "8", "9">>

\* StringUtils::to_string of a size_t
RECURSIVE to_string(_)
to_string(n) ==
    IF n < 10 THEN <<DecimalDigits[n + 1]>>
    ELSE to_string(n \div 10) \o <<DecimalDigits[(n % 10) + 1]>>

\* ContentCryptoSchemeMapper::GetNameForContentCryptoScheme
GetNameForContentCryptoScheme(scheme) ==
    CASE scheme = "CBC" -> <<"AES/CBC/PKCS5Padding">>
      [] scheme = "CTR" -> <<"AES/CTR/NoPadding">>
      [] scheme = "GCM" -> <<"AES/GCM/NoPadding">>
      [] OTHER -> <<>>

\* KeyWrapAlgorithmMapper::GetNameForKeyWrapAlgorithm
GetNameForKeyWrapAlgorithm(alg) ==
    CASE alg = "KMS" -> <<"kms">>
      [] alg = "AES_KEY_WRAP" -> <<"AESWrap">>
      [] OTHER -> <<>>

\* a string as it stands between the quotes of the serialized form
RECURSIVE Escape(_)
Escape(s) ==
    IF s = <<>> THEN <<>>
    ELSE (IF Head(s) = "\"" THEN <<"\\", "\"">>
          ELSE IF Head(s) = "\\" THEN <<"\\", "\\">>
          ELSE <<Head(s)>>) \o Escape(Tail(s))

RECURSIVE SerializeEntries(_)
SerializeEntries(map) ==
    IF map = <<>> THEN <<>>
    ELSE <<"\"">> \o Escape(map[1].k) \o <<"\"", ":", "\"">> \o Escape(map[1].v) \o <<"\"">>
         \o (IF Len(map) = 1 THEN <<>> ELSE <<",">> \o SerializeEntries(Tail(map)))

\* SerializeMap: the compact form {"k":"v",...}
SerializeMap(map) == <<"{">> \o SerializeEntries(map) \o <<"}">>

\* map[k] = v of Aws::Map
MapPut(map, k, v) ==
    IF \E i \in 1..Len(map) : map[i].k = k
    THEN [i \in 1..Len(map) |-> IF map[i].k = k THEN [k |-> k, v |-> v] ELSE map[i]]
    ELSE Append(map, [k |-> k, v |-> v])

\* a default-constructed ContentCryptoMaterial
NoMaterial ==
    [finalCEK |-> <<>>, iv |-> <<>>, materialsDescription |-> <<>>,
     contentCryptoScheme |-> "NONE", keyWrapAlgorithm |-> "NONE", cryptoTagLength |-> 0]

\* the materials descriptions of the model: empty, plain, with whitespace
\* in a value, with whitespace in a key
MaterialsDescriptions ==
    { <<>>,
      <<[k |-> <<"kms-key">>, v |-> <<"abc">>]>>,
      <<[k |-> <<"kms-key">>, v |-> <<"my", " ", "key">>]>>,
      <<[k |-> <<"key", " ", "id">>, v |-> <<"abc">>], [k |-> <<"x">>, v |-> <<"y">>]>> }

\* the valid ContentCryptoMaterial values of the model
Materials ==
    [finalCEK : {<<1>>, <<255, 0, 16, 77, 3>>},
     iv : {<<0, 7>>, <<9, 8, 250>>},
     materialsDescription : MaterialsDescriptions,
     contentCryptoScheme : {"CBC", "CTR", "GCM"},
     keyWrapAlgorithm : {"KMS", "AES_KEY_WRAP"},
     cryptoTagLength : {0, MaxTagLengthBits}]

\* the map PopulateRequest builds from the material
ContentCryptoMap(m) ==
    LET m1 == MapPut(<<>>, CONTENT_KEY_HEADER, Base64Encode(m.finalCEK))
        m2 == MapPut(m1, IV_HEADER, Base64Encode(m.iv))
        m3 == MapPut(m2, MATERIALS_DESCRIPTION_HEADER, SerializeMap(m.materialsDescription))
        m4 == MapPut(m3, CONTENT_CRYPTO_SCHEME_HEADER,
                     GetNameForContentCryptoScheme(m.contentCryptoScheme))
        m5 == MapPut(m4, KEY_WRAP_ALGORITHM, GetNameForKeyWrapAlgorithm(m.keyWrapAlgorithm))
    IN MapPut(m5, CRYPTO_TAG_LENGTH_HEADER, to_string(m.cryptoTagLength))

\* PopulateRequest that adds the marker to the metadata the request has
PopulateRequest_KeepsMetadata(req, m) ==
    [key |-> req.key \o DEFAULT_INSTRUCTION_FILE_SUFFIX,
     metadata |-> MapPut(req.metadata, INSTRUCTION_FILE_HEADER, INSTRUCTION_HEADER_VALUE),
     body |-> SerializeMap(ContentCryptoMap(m))]

\* InstructionFileHandler::PopulateRequest
PopulateRequestOf(req, m) ==
    [key |-> req.key \o DEFAULT_INSTRUCTION_FILE_SUFFIX,
     metadata |-> MapPut(<<>>, INSTRUCTION_FILE_HEADER, INSTRUCTION_HEADER_VALUE),
     body |-> SerializeMap(ContentCryptoMap(m))]

IsSpace(c) == c \in {" ", "\t", "\n"}

\* stream >> string: skips leading whitespace, then takes characters up to
\* the next whitespace or the end of the stream
ExtractString(text, pos) ==
    LET first == IF \E i \in (pos + 1)..Len(text) : ~IsSpace(text[i])
                 THEN CHOOSE i \in (pos + 1)..Len(text) :
                         /\ ~IsSpace(text[i])
                         /\ \A j \in (pos + 1)..(i - 1) : IsSpace(text[j])
                 ELSE Len(text) + 1
        stop  == IF \E i \in first..Len(text) : IsSpace(text[i])
                 THEN CHOOSE i \in first..Len(text) :
                         /\ IsSpace(text[i])
                         /\ \A j \in first..(i - 1) : ~IsSpace(text[j])
                 ELSE Len(text) + 1
    IN [str |-> SubSeq(text, first, stop - 1), pos |-> stop - 1]

\* DeserializeMap, the inverse of SerializeMap on envelopes: the map whose
\* serialized form is the string, the empty map when the string is not the
\* serialized form of one
DeserializeMap(text) ==
    IF \E m \in Materials : SerializeMap(ContentCryptoMap(m)) = text
    THEN ContentCryptoMap(CHOOSE m \in Materials : SerializeMap(ContentCryptoMap(m)) = text)
    ELSE <<>>

\* ReadMetadata, the inverse of the projection of a material onto its map: a
\* default material when a field is missing
ReadMetadata(map) ==
    IF \E m \in Materials : ContentCryptoMap(m) = map
    THEN CHOOSE m \in Materials : ContentCryptoMap(m) = map
    ELSE NoMaterial

\* InstructionFileHandler::ReadContentCryptoMaterial on a result whose body
\* is text
ReadContentCryptoMaterialOf(text) ==
    LET x == ExtractString(text, 0)
    IN [material |-> ReadMetadata(DeserializeMap(x.str)), pos |-> x.pos]

\* the requests handed to PopulateRequest
Requests ==
    [key : {<<"object1">>, <<"dir/", "my", " ", "object">>},
     metadata : {<<>>, <<[k |-> <<"user">>, v |-> <<"x">>]>>},
     body : {<<"payload">>}]

InitHandler ==
    /\ kind = "CBC"
    /\ Constructed
    /\ NoRoundTrip
    /\ StaticUntouched
    /\ request \in Requests
    /\ contentCryptoMaterial \in Materials
    /\ handlerOp = "none"
    /\ originalKey = request.key
    /\ bodyPos = 0
    /\ readMaterial = NoMaterial
    /\ NoHash
    /\ NoHelper

PopulateRequest ==
    /\ handlerOp = "none"
    /\ request' = PopulateRequestOf(request, contentCryptoMaterial)
    /\ handlerOp' = "PopulateRequest"
    /\ UNCHANGED <<contentCryptoMaterial, originalKey, bodyPos, readMaterial>>
    /\ UNCHANGED <<cipherVars, roundTripVars, staticVars, hashVars, helperVars, ndebug, proc>>

\* the object written by the request is read back and handed to
\* ReadContentCryptoMaterial
ReadContentCryptoMaterial ==
    /\ handlerOp = "PopulateRequest"
    /\ LET r == ReadContentCryptoMaterialOf(request.body)
       IN /\ readMaterial' = r.material
          /\ bodyPos' = r.pos
    /\ handlerOp' = "ReadContentCryptoMaterial"
    /\ UNCHANGED <<request, contentCryptoMaterial, originalKey>>
    /\ UNCHANGED <<cipherVars, roundTripVars, staticVars, hashVars, helperVars, ndebug, proc>>

NextHandler ==
    \/ PopulateRequest
    \/ ReadContentCryptoMaterial

SpecHandler == InitHandler /\ [][NextHandler]_vars

-----------------------------------------------------------------------------
(* MD5OpenSSLImpl::Calculate and Sha256OpenSSLImpl::Calculate on a stream. *)
(* The stream is a seekable in-memory stream with the state bits of        *)
(* std::basic_ios; its member functions behave as C++11 specifies.  A      *)
(* digest context is modelled by the bytes it has absorbed, and the digest *)
(* by those bytes and the algorithm.                                       *)

good(s) == ~s.eofbit /\ ~s.failbit /\ ~s.badbit

fail(s) == s.failbit \/ s.badbit

\* the sentry of an unformatted input function: sets failbit unless good()
sentry(s) == IF good(s) THEN s ELSE [s EXCEPT !.failbit = TRUE]

\* stream.tellg(): -1 when the stream has failed
tellg(s) ==
    LET s1 == sentry(s)
    IN [stream |-> s1, pos |-> IF fail(s1) THEN -1 ELSE s1.pos]

\* stream.clear()
clear(s) == [s EXCEPT !.eofbit = FALSE, !.failbit = FALSE, !.badbit = FALSE]

\* stream.seekg(off, stream.beg): clears eofbit, then seeks unless the stream
\* has failed
seekg(s, off) ==
    LET s1 == sentry([s EXCEPT !.eofbit = FALSE])
    IN IF fail(s1) THEN s1
       ELSE IF off < 0 \/ off > Len(s1.content) THEN [s1 EXCEPT !.failbit = TRUE]
       ELSE [s1 EXCEPT !.pos = off]

\* stream.read(buffer, n) and stream.gcount()
read(s, n) ==
    IF ~good(s)
    THEN [stream |-> [s EXCEPT !.failbit = TRUE], bytes |-> <<>>]
    ELSE LET k == IF Len(s.content) - s.pos < n THEN Len(s.content) - s.pos ELSE n
         IN [stream |-> [s EXCEPT !.pos = s.pos + k,
                                  !.eofbit = (k < n),
                                  !.failbit = (k < n)],
             bytes |-> SubSeq(s.content, s.pos + 1, s.pos + k)]

\* the start of Calculate without the seekg to the beginning
CalculateBegin_NoRewind(s) ==
    LET t == tellg(s)
    IN IF t.pos = -1
       THEN [stream |-> clear(t.stream), currentPos |-> 0]
       ELSE [stream |-> t.stream, currentPos |-> t.pos]

\* Calculate up to its loop: tellg, the fallback to position 0, seekg(0)
CalculateBegin(s) ==
    LET t == tellg(s)
        c == IF t.pos = -1
             THEN [stream |-> clear(t.stream), currentPos |-> 0]
             ELSE [stream |-> t.stream, currentPos |-> t.pos]
    IN [stream |-> seekg(c.stream, 0), currentPos |-> c.currentPos]

\* Calculate after its loop: clear, seekg(currentPos)
CalculateEnd(s, pos) == seekg(clear(s), pos)

\* the streams handed to Calculate: any content, read position and state
Streams ==
    { [content |-> c, pos |-> p, eofbit |-> e, failbit |-> f, badbit |-> b] :
        c \in UNION { [1..n -> {0, 1}] : n \in 0..MaxStreamLen },
        p \in 0..MaxStreamLen, e \in BOOLEAN, f \in BOOLEAN, b \in BOOLEAN }

InitHash ==
    /\ kind = "CBC"
    /\ Constructed
    /\ NoRoundTrip
    /\ StaticUntouched
    /\ NoRequest
    /\ stream \in { s \in Streams : s.pos <= Len(s.content) }
    /\ hashKind \in {"MD5", "SHA256"}
    /\ hashPc = "call"
    /\ currentPos = 0
    /\ md = <<>>
    /\ hashResult = <<>>
    /\ streamAtCall = stream
    /\ NoHelper

\* MD5_Init / SHA256_Init, tellg, seekg(0)
CalculateStart ==
    /\ hashPc = "call"
    /\ LET b == CalculateBegin(stream)
       IN /\ stream' = b.stream
          /\ currentPos' = b.currentPos
    /\ md' = <<>>
    /\ hashPc' = "loop"
    /\ UNCHANGED <<hashKind, hashResult, streamAtCall>>
    /\ UNCHANGED <<cipherVars, roundTripVars, staticVars, handlerVars, helperVars, ndebug,
                   proc>>

\* one turn of while (stream.good()): read, gcount, MD5_Update / SHA256_Update
CalculateRead ==
    /\ hashPc = "loop"
    /\ good(stream)
    /\ LET r == read(stream, StreamBufferSize)
       IN /\ stream' = r.stream
          /\ md' = IF Len(r.bytes) > 0 THEN md \o r.bytes ELSE md
    /\ UNCHANGED <<hashKind, hashPc, currentPos, hashResult, streamAtCall>>
    /\ UNCHANGED <<cipherVars, roundTripVars, staticVars, handlerVars, helperVars, ndebug,
                   proc>>

\* the loop is left: clear, seekg(currentPos), MD5_Final / SHA256_Final
CalculateFinish ==
    /\ hashPc = "loop"
    /\ ~good(stream)
    /\ stream' = CalculateEnd(stream, currentPos)
    /\ hashResult' = <<hashKind, md>>
    /\ hashPc' = "done"
    /\ UNCHANGED <<hashKind, currentPos, md, streamAtCall>>
    /\ UNCHANGED <<cipherVars, roundTripVars, staticVars, handlerVars, helperVars, ndebug,
                   proc>>

NextHash ==
    \/ CalculateStart
    \/ CalculateRead
    \/ CalculateFinish

\* Calculate is one sequential call: it goes on while it has a step to take
SpecHash == InitHash /\ [][NextHash]_vars /\ WF_vars(NextHash)

-----------------------------------------------------------------------------
(* Helpers of the key wrap: Msb, Lsb, ConvertBufferto64BitInteger and      *)
(* ConvertBufferTo8ByteSlices.  A uint64_t is the sequence of its 8 bytes, *)
(* most significant first; a uint8_t is a number below 256.                *)

RECURSIVE BitAnd(_, _)
BitAnd(a, b) ==
    IF a = 0 \/ b = 0 THEN 0
    ELSE (a % 2) * (b % 2) + 2 * BitAnd(a \div 2, b \div 2)

RECURSIVE BitOr(_, _)
BitOr(a, b) ==
    IF a = 0 THEN b
    ELSE IF b = 0 THEN a
    ELSE (IF a % 2 = 1 \/ b % 2 = 1 THEN 1 ELSE 0) + 2 * BitOr(a \div 2, b \div 2)

\* a & b and a | b on uint64_t
And64(a, b) == [i \in 1..8 |-> BitAnd(a[i], b[i])]
Or64(a, b) == [i \in 1..8 |-> BitOr(a[i], b[i])]

\* the integral promotion of a uint8_t to uint64_t, and the conversion back
\* that an assignment to a uint8_t makes
Widen(m) == <<0, 0, 0, 0, 0, 0, 0, m>>
Truncate8(v) == v[8]

\* one turn of the loop of Msb: mask >>= 1; mask |= MSB_CONST
MsbTurn(mask) == Truncate8(Or64(Widen(mask \div 2), MSB_CONST))

\* mask after n more turns of the loop of Msb; a uint8_t is below 256, and
\* the turns are taken in two halves, which keeps the evaluation shallow
MsbTurns[n \in 0..BitWidth, mask \in 0..255] ==
    IF n = 0 THEN mask
    ELSE IF n = 1 THEN MsbTurn(mask)
    ELSE MsbTurns[n - (n \div 2), MsbTurns[n \div 2, mask]]

\* mask after the i turns of the loop of Msb, from uint8_t mask(0)
MsbMask(i) == MsbTurns[i, 0]

\* one turn of the loop of Lsb: mask <<= 1; mask |= LSB_CONST
LsbTurn(mask) == Truncate8(Or64(Widen((mask * 2) % 256), LSB_CONST))

\* mask after n more turns of the loop of Lsb; a uint8_t is below 256, and
\* the turns are taken in two halves, which keeps the evaluation shallow
LsbTurns[n \in 0..BitWidth, mask \in 0..255] ==
    IF n = 0 THEN mask
    ELSE IF n = 1 THEN LsbTurn(mask)
    ELSE LsbTurns[n - (n \div 2), LsbTurns[n \div 2, mask]]

\* mask after the i turns of the loop of Lsb, from uint8_t mask(0)
LsbMask(i) == LsbTurns[i, 0]

\* Msb(j, buff)
Msb(j, buff) == And64(buff, Widen(MsbMask(j)))

\* Lsb(j, buff)
Lsb(j, buff) == And64(buff, Widen(LsbMask(j)))

\* value after i turns of the loop of ConvertBufferto64BitInteger:
\* value <<= 8; value |= buffer[i]
RECURSIVE ConvertLoop(_, _)
ConvertLoop(buffer, i) ==
    IF i = 0 THEN <<0, 0, 0, 0, 0, 0, 0, 0>>
    ELSE Or64(Tail(ConvertLoop(buffer, i - 1)) \o <<0>>, Widen(buffer[i]))

\* ConvertBufferto64BitInteger
ConvertBufferto64BitInteger(buffer) == ConvertLoop(buffer, 8)

\* the number of values ConvertBufferTo8ByteSlices makes
SliceCount(buffer) == Len(buffer) + (Len(buffer) % 8)

\* ConvertBufferTo8ByteSlices: value i is read from the 8 bytes at
\* GetUnderlyingData() + 8 * i; a byte past the end of the buffer reads as
\* whatever the memory holds
ConvertBufferTo8ByteSlices(buffer, memory) ==
    LET byte(k) == IF k <= Len(buffer) THEN buffer[k] ELSE memory
    IN [values |-> [i \in 1..SliceCount(buffer) |->
                       ConvertBufferto64BitInteger([k \in 1..8 |-> byte(8 * (i - 1) + k)])],
        pastEnd |-> 8 * SliceCount(buffer) > Len(buffer)]

\* the 64-bit values handed to Msb and Lsb
Values64 ==
    { <<255, 255, 255, 255, 255, 255, 255, 255>>,
      <<165, 90, 165, 90, 165, 90, 165, 90>>,
      <<128, 0, 0, 0, 0, 0, 0, 1>>,
      <<0, 0, 0, 0, 0, 0, 0, 0>> }

\* the buffers handed to ConvertBufferTo8ByteSlices: whole 8-byte slices
SliceBuffers == { [k \in 1..(8 * n) |-> (k * 37) % 256] : n \in 0..MaxSlices }

InitHelpers ==
    /\ kind = "KeyWrap"
    /\ Constructed
    /\ NoRoundTrip
    /\ StaticUntouched
    /\ NoRequest
    /\ NoHash
    /\ called = "none"
    /\ argJ \in 0..BitWidth
    /\ argBuff \in Values64
    /\ argBuffer \in SliceBuffers
    /\ retValue = [values |-> <<>>, pastEnd |-> FALSE]

CallMsb ==
    /\ called = "none"
    /\ called' = "Msb"
    /\ retValue' = [values |-> <<Msb(argJ, argBuff)>>, pastEnd |-> FALSE]
    /\ UNCHANGED <<argJ, argBuff, argBuffer, proc>>
    /\ UNCHANGED <<cipherVars, roundTripVars, staticVars, handlerVars, hashVars, ndebug>>

CallLsb ==
    /\ called = "none"
    /\ called' = "Lsb"
    /\ retValue' = [values |-> <<Lsb(argJ, argBuff)>>, pastEnd |-> FALSE]
    /\ UNCHANGED <<argJ, argBuff, argBuffer, proc>>
    /\ UNCHANGED <<cipherVars, roundTripVars, staticVars, handlerVars, hashVars, ndebug>>

\* a read past the end of the buffer is undefined: the process crashes, or
\* goes on with what the memory holds
CallConvertBufferTo8ByteSlices ==
    /\ called = "none"
    /\ called' = "ConvertBufferTo8ByteSlices"
    /\ \E memory \in {0, 255} :
          LET r == ConvertBufferTo8ByteSlices(argBuffer, memory)
          IN /\ retValue' = r
             /\ proc' \in (IF r.pastEnd THEN {"running", "crashed"} ELSE {"running"})
    /\ UNCHANGED <<argJ, argBuff, argBuffer>>
    /\ UNCHANGED <<cipherVars, roundTripVars, staticVars, handlerVars, hashVars, ndebug>>

NextHelpers ==
    \/ CallMsb
    \/ CallLsb
    \/ CallConvertBufferTo8ByteSlices

SpecHelpers == InitHelpers /\ [][NextHelpers]_vars

-----------------------------------------------------------------------------
(* Properties                                                              *)

CipherOps == {"EncryptBuffer", "FinalizeEncryption", "DecryptBuffer", "FinalizeDecryption"}

\* the last call made the primitive call fn
Made(fn) == \E i \in 1..Len(lastCalls) : lastCalls[i].fn = fn

\* the last call made the primitive call fn and it succeeded
MadeOk(fn) == \E i \in 1..Len(lastCalls) : lastCalls[i].fn = fn /\ lastCalls[i].ok

\* a primitive of the library reported an error during the last call
PrimitiveFailed ==
    \E i \in 1..Len(lastCalls) : ~lastCalls[i].ok /\ lastCalls[i].fn # "TagLengthCheck"

\* the tag comparison of GCM reported a mismatch during the last call
TagMismatch ==
    \E i \in 1..Len(lastCalls) : ~lastCalls[i].ok /\ lastCalls[i].why = "tag"

\* the context has compared the tag it was given with the data and found it
\* right: a GCM context in the decrypt direction, with a tag set, whose final
\* step has succeeded (the final step is the only place that clears ivSet
\* once a tag is set)
TagVerified ==
    /\ m_ctx.cipher = "aes_256_gcm"
    /\ ~m_ctx.encrypt
    /\ m_ctx.tagLen >= 0
    /\ ~m_ctx.ivSet

\* C1: once the session is in encrypting mode, a DecryptBuffer call does not
\* reach the decrypt primitive and returns nothing, and the same with the
\* roles exchanged, unless Reset was called in between (Reset clears the mode).
C1_NoModeSwitchWithoutReset ==
    /\ (lastOp = "DecryptBuffer" /\ pre.m.enc) => (~Made("DecryptUpdate") /\ lastResult = 0)
    /\ (lastOp = "EncryptBuffer" /\ pre.m.dec) => (~Made("EncryptUpdate") /\ lastResult = 0)

\* C2: a cipher call made while the failure flag is set returns an empty
\* buffer and leaves every member (failure flag included) as it was.
C2_FailureStickyNoOp ==
    (lastOp \in CipherOps /\ pre.m.failure) => (lastResult = 0 /\ Members = pre.m)

\* C3: a call during which a primitive fails sets the failure flag and returns
\* an empty buffer, and a call that sets the failure flag returns an empty
\* buffer.
C3_PrimitiveFailureEmptyResult ==
    (proc = "running" /\ lastOp \in CipherOps) =>
        /\ PrimitiveFailed => (m_failure /\ lastResult = 0)
        /\ (~pre.m.failure /\ m_failure) => lastResult = 0

\* C4: a GCM session in decrypt mode returns a non-empty buffer from
\* DecryptBuffer or FinalizeDecryption only when the tag has been verified.
C4_NoUnverifiedPlaintext ==
    (kind = "GCM" /\ m_decryptionMode
        /\ lastOp \in {"DecryptBuffer", "FinalizeDecryption"} /\ lastResult > 0)
    => TagVerified

\* C5: a GCM FinalizeDecryption call whose tag comparison fails returns an
\* empty buffer and leaves the failure flag set.
C5_TagMismatchDiscardsPlaintext ==
    (kind = "GCM" /\ lastOp = "FinalizeDecryption" /\ TagMismatch)
    => (lastResult = 0 /\ m_failure)

C5_Witness ==
    /\ kind = "GCM"
    /\ lastOp = "FinalizeDecryption"
    /\ TagMismatch
    /\ ~pre.m.failure
    /\ pre.m.dec
    /\ m_ctx.total > 0

\* C6: what the caller sees of a call that failed on a tag mismatch differs
\* from what it sees of every call that failed for another reason.
C6_AuthFailureDistinguished ==
    authFailOutcomes \cap otherFailOutcomes = {}

\* C7: a call that starts decryption on a GCM session whose tag is shorter
\* than 16 bytes (absent included) and returns, returns as a failure: the
\* failure flag is set, nothing is returned, and the tag was not handed to
\* the primitive.
C7_ShortTagFailsDecryptStart ==
    (kind = "GCM" /\ lastOp = "DecryptBuffer" /\ proc = "running"
        /\ ~pre.m.failure /\ ~pre.m.init
        /\ MadeOk("DecryptInit") /\ pre.m.tag.len < TagLengthBytes)
    => (m_failure /\ lastResult = 0 /\ ~Made("SetTag"))

\* C8: after a GCM FinalizeEncryption call that returns without the failure
\* flag set, the tag is 16 bytes long, it is the tag the primitive computed
\* over the data of the session, and it was read after the final step.
C8_TagStoredAfterFlush ==
    (kind = "GCM" /\ lastOp = "FinalizeEncryption" /\ proc = "running" /\ ~m_failure)
    => /\ m_tag.len = 16
       /\ m_ctx.encrypt
       /\ m_tag.val = GcmTagOf(m_ctx)
       /\ Len(lastCalls) = 2
       /\ lastCalls[1] = Call("EncryptFinal", TRUE, "ok")
       /\ lastCalls[2] = Call("GetTag", TRUE, "lib")

C8_Witness ==
    /\ kind = "GCM"
    /\ lastOp = "FinalizeEncryption"
    /\ proc = "running"
    /\ ~m_failure
    /\ m_ctx.total > 0
    /\ m_tag.val = m_ctx.total

\* C9: an EncryptBuffer call that follows FinalizeEncryption returns no
\* ciphertext.
C9_EncryptAfterFinalizeFails ==
    (lastOp = "EncryptBuffer" /\ pre.op = "FinalizeEncryption") => lastResult = 0

\* C10: Reset leaves all four flags false, and an EncryptBuffer or
\* DecryptBuffer call that follows it starts with the lazy initialisation.
C10_ResetUninitializes ==
    /\ lastOp = "Reset" =>
          /\ proc = "running"
          /\ ~m_encDecInitialized /\ ~m_encryptionMode /\ ~m_decryptionMode /\ ~m_failure
    /\ (pre.op = "Reset" /\ lastOp = "EncryptBuffer") =>
          (Len(lastCalls) >= 1 /\ lastCalls[1].fn = "EncryptInit")
    /\ (pre.op = "Reset" /\ lastOp = "DecryptBuffer") =>
          (Len(lastCalls) >= 1 /\ lastCalls[1].fn = "DecryptInit")

C10_Witness ==
    /\ lastOp = "Reset"
    /\ pre.m.failure
    /\ pre.m.init
    /\ pre.m.enc

\* C11: after Reset the key wrap working buffer holds nothing of what
\* EncryptBuffer accumulated before it.
C11_ResetClearsWorkingBuffer ==
    (kind = "KeyWrap" /\ lastOp = "Reset") => m_workingKeyBuffer = <<>>

\* C12: in every reachable state the key and the IV are the ones the session
\* was constructed with.
C12_KeyAndIvImmutable ==
    /\ m_key = "key"
    /\ m_initializationVector = "iv"

C12_Witness ==
    /\ lastOp = "Reset"
    /\ pre.op = "FinalizeEncryption"
    /\ pre.m.init
    /\ m_key = "key"

\* C13: the encrypting and decrypting flags are never both true, and the
\* initialized flag is true exactly when one of them is.
C13_ModeFlagsExclusive ==
    /\ ~(m_encryptionMode /\ m_decryptionMode)
    /\ m_encDecInitialized <=> (m_encryptionMode \/ m_decryptionMode)

C13_Witness ==
    /\ lastOp = "Move"
    /\ pre.op = "DecryptBuffer"
    /\ m_encryptionMode
    /\ m_encDecInitialized

\* the bytes held by a working key buffer
RECURSIVE BufferBytes(_)
BufferBytes(b) == IF b = <<>> THEN 0 ELSE Head(b) + BufferBytes(Tail(b))

\* the number of Encrypt calls the last call made
EncryptCalls == Cardinality({ i \in 1..Len(lastCalls) : lastCalls[i].fn = "Encrypt" })

\* a key wrap FinalizeEncryption call that returned without failure, made
\* with a key of at least one 64-bit block accumulated
WrapReturned ==
    /\ kind = "KeyWrap"
    /\ lastOp = "FinalizeEncryption"
    /\ proc = "running"
    /\ ~m_failure
    /\ BufferBytes(pre.m.wkb) > 0

\* C14: a key wrap EncryptBuffer call returns an empty buffer, reaches no
\* encryption primitive, and leaves the working buffer equal to what it was
\* followed by the argument.
C14_KeyWrapAccumulates ==
    (kind = "KeyWrap" /\ lastOp = "EncryptBuffer" /\ proc = "running")
    => /\ lastResult = 0
       /\ ~Made("EncryptUpdate") /\ ~Made("Encrypt")
       /\ m_workingKeyBuffer =
             pre.m.wkb \o (IF lastArg = 0 THEN <<>> ELSE <<lastArg>>)

C14_Witness ==
    /\ kind = "KeyWrap"
    /\ lastOp = "EncryptBuffer"
    /\ proc = "running"
    /\ Len(m_workingKeyBuffer) = 2
    /\ m_workingKeyBuffer[1] < m_workingKeyBuffer[2]

\* C15: key wrap FinalizeEncryption on a key of n 64-bit blocks returns
\* (n+1)*8 bytes.
C15_WrappedKeyLength ==
    WrapReturned => lastResult = BufferBytes(pre.m.wkb) + 8

\* C16: the wrap loop makes 6*n AES encryptions for a key of n 64-bit blocks.
C16_SixRoundsOverKeyBlocks ==
    WrapReturned => EncryptCalls = 6 * (BufferBytes(pre.m.wkb) \div 8)

\* C18: a key wrap session in decrypt mode returns key bytes only from a call
\* that compared the integrity-check register with the default value.
C18_UnwrapChecksRegister ==
    (kind = "KeyWrap" /\ m_decryptionMode
        /\ lastOp \in {"DecryptBuffer", "FinalizeDecryption"} /\ lastResult > 0)
    => Made("IntegrityCheck")

\* C17: a round trip in which no primitive reported an error ends with the
\* unwrap having returned, without failure, as many bytes as the key wrapped.
C17_UnwrapReturnsKey ==
    (step = "done" /\ proc = "running" /\ ~primitiveError)
    => (~m_failure /\ unwrappedKey = BufferBytes(cek))

\* the part of the static state the callers of init and cleanup can observe
Registered(g) == [locking |-> g.locking, id |-> g.id, locks |-> g.locks]

\* C19: once init_static_state has been called, a cleanup_static_state call
\* that follows another one passes its assertion, frees nothing and leaves the
\* callbacks and the lock table pointer as the first one left them.
C19_CleanupIdempotent ==
    (staticHist.initCalled /\ staticHist.op = "cleanup" /\ staticHist.prevOp = "cleanup")
    => /\ proc = "running"
       /\ Registered(Global) = Registered(staticHist.g)
       /\ frees = staticHist.g.frees

\* C20: an init_static_state call that follows another one leaves the static
\* state as the first one left it, and the two calls together allocate at
\* most one lock table.
C20_InitIdempotent ==
    (staticHist.op = "init" /\ staticHist.prevOp = "init")
    => /\ proc = "running"
       /\ Registered(Global) = Registered(staticHist.g)
       /\ allocations = staticHist.g.allocations
       /\ allocations - staticHist.allocationsBefore <= 1

C20_Witness ==
    /\ staticHist.op = "init"
    /\ staticHist.prevOp = "init"
    /\ locking_callback = "locking_fn"
    /\ id_callback = "id_fn"
    /\ locks # <<>>
    /\ allocations = 1
    /\ staticHist.allocationsBefore = 0

\* C23: while the process runs, the lock table is allocated whenever the
\* registered locking callback is locking_fn.
C23_LockingFnHasTable ==
    (proc = "running" /\ locking_callback = "locking_fn") => locks # <<>>

\* C24: a cleanup_static_state call that returns leaves a foreign locking
\* callback and a foreign id callback registered, and when it follows
\* init_static_state neither locking_fn nor id_fn is registered after it.
C24_CleanupOnlyOwnCallbacks ==
    (proc = "running" /\ staticHist.op = "cleanup")
    => /\ staticHist.g.locking = "foreign" => locking_callback = "foreign"
       /\ staticHist.g.id = "foreign" => id_callback = "foreign"
       /\ staticHist.prevOp = "init"
            => (locking_callback # "locking_fn" /\ id_callback # "id_fn")

\* the threads between their lock and their unlock of slot n
Inside(n) == { t \in Threads : <<t, n>> \in holding }

\* C25: with the lock table installed, at most one thread is between its
\* lock(n) and its unlock(n), and the mutex of a slot no thread is inside is
\* unlocked, so that locking it does not wait whatever other slots are held.
C25_SlotsExcludeIndependently ==
    (proc = "running" /\ locks # <<>>)
    => \A n \in Slots :
          /\ Cardinality(Inside(n)) <= 1
          /\ Inside(n) = {} => locks[MutexOf(n) + 1] = "unlocked"

C25_Witness ==
    /\ proc = "running"
    /\ locks # <<>>
    /\ Inside(0) = {"t1"}
    /\ Inside(1) = {"t2"}
    /\ staticHist.op = "locking"

\* the value the map holds for key k (the empty string when it holds none)
ValueOf(map, k) ==
    IF \E i \in 1..Len(map) : map[i].k = k
    THEN map[CHOOSE i \in 1..Len(map) : map[i].k = k].v
    ELSE <<>>

\* C21: after PopulateRequest the key of the request is the original key
\* followed by the suffix, its metadata holds the marker header and nothing
\* else, and its body is the serialized form of a map with exactly the six
\* envelope keys, each holding the encoding of the field of the material.
C21_PopulateRequestWritesEnvelope ==
    handlerOp = "PopulateRequest"
    => LET map == DeserializeMap(request.body)
           m   == contentCryptoMaterial
       IN /\ request.key = originalKey \o DEFAULT_INSTRUCTION_FILE_SUFFIX
          /\ Len(request.metadata) = 1
          /\ request.metadata[1] = [k |-> INSTRUCTION_FILE_HEADER, v |-> INSTRUCTION_HEADER_VALUE]
          /\ request.body = SerializeMap(map)
          /\ Len(map) = 6
          /\ { map[i].k : i \in 1..Len(map) } = EnvelopeHeaders
          /\ ValueOf(map, CONTENT_KEY_HEADER) = Base64Encode(m.finalCEK)
          /\ ValueOf(map, IV_HEADER) = Base64Encode(m.iv)
          /\ ValueOf(map, MATERIALS_DESCRIPTION_HEADER) = SerializeMap(m.materialsDescription)
          /\ ValueOf(map, CONTENT_CRYPTO_SCHEME_HEADER)
                = GetNameForContentCryptoScheme(m.contentCryptoScheme)
          /\ ValueOf(map, KEY_WRAP_ALGORITHM) = GetNameForKeyWrapAlgorithm(m.keyWrapAlgorithm)
          /\ ValueOf(map, CRYPTO_TAG_LENGTH_HEADER) = to_string(m.cryptoTagLength)

C21_Witness ==
    /\ handlerOp = "PopulateRequest"
    /\ originalKey = <<"object1">>
    /\ request.key = <<"object1", ".instruction">>
    /\ contentCryptoMaterial.materialsDescription # <<>>
    /\ contentCryptoMaterial.cryptoTagLength = MaxTagLengthBits
    /\ Len(request.body) > 6

\* C22: ReadContentCryptoMaterial on the body PopulateRequest wrote reads the
\* whole body and returns the material PopulateRequest was given.
C22_ReadReturnsWrittenMaterial ==
    handlerOp = "ReadContentCryptoMaterial"
    => /\ bodyPos = Len(request.body)
       /\ readMaterial = contentCryptoMaterial

RECURSIVE Pow2(_)
Pow2(n) == IF n = 0 THEN 1 ELSE 2 * Pow2(n - 1)

\* the bits of byte i (1 is the most significant byte) among the j most
\* significant, and among the j least significant, bits of a 64-bit value
TopBitsIn(i, j) ==
    IF j >= 8 * i THEN 8 ELSE IF j <= 8 * (i - 1) THEN 0 ELSE j - 8 * (i - 1)

LowBitsIn(i, j) ==
    IF j >= 8 * (9 - i) THEN 8 ELSE IF j <= 8 * (8 - i) THEN 0 ELSE j - 8 * (8 - i)

\* x with only its j most significant bits kept
KeepMsb(j, x) == [i \in 1..8 |-> x[i] - (x[i] % Pow2(8 - TopBitsIn(i, j)))]

\* x with only its j least significant bits kept
KeepLsb(j, x) == [i \in 1..8 |-> x[i] % Pow2(LowBitsIn(i, j))]

\* C27: Msb(j, X) is X with its j most significant bits kept, Lsb(j, X) is X
\* with its j least significant bits kept, and ConvertBufferTo8ByteSlices on
\* a buffer of L bytes returns the L/8 big-endian values of its 8-byte
\* slices without reading past its end.
C27_KeyWrapHelpers ==
    /\ called = "Msb" => retValue.values = <<KeepMsb(argJ, argBuff)>>
    /\ called = "Lsb" => retValue.values = <<KeepLsb(argJ, argBuff)>>
    /\ called = "ConvertBufferTo8ByteSlices"
         => /\ proc = "running"
            /\ ~retValue.pastEnd
            /\ Len(retValue.values) = Len(argBuffer) \div 8
            /\ \A i \in 1..Len(retValue.values) :
                  retValue.values[i] = SubSeq(argBuffer, 8 * (i - 1) + 1, 8 * i)

====
